---- MODULE Spec2Model ----
(***************************************************************************)
(* Model of django_mongoengine/forms/documents.py: construct_instance,     *)
(* DocumentFormOptions, DocumentFormMetaclass.__new__, BaseDocumentForm     *)
(* (_save_m2m, _post_clean, save) and documentform_factory.                 *)
(***************************************************************************)
EXTENDS Integers, Sequences, FiniteSets, TLC

VARIABLES
    meta,          \* the user's Meta options object (attribute -> value), or NoMeta
    opts,          \* new_class._meta / form._meta: the DocumentFormOptions, or NoOpts
    cls,           \* the form class being defined by DocumentFormMetaclass.__new__
    docMeta,       \* document class -> its _meta object (attributes fields, collection)
    instance,      \* the document instance object: [oid, cls, values]
    selfInstance,  \* form.instance: the oid the form refers to
    cleaned_data,  \* form.cleaned_data: field name -> cleaned value
    errors,        \* form.errors: the set of recorded errors
    save_m2m,      \* form.save_m2m attribute
    args,          \* the arguments / environment of the call under study
    last,          \* what the last operation did: calls made, outcome, return value
    fac            \* documentform_factory: arguments, host call, outcome

vars == <<meta, opts, cls, docMeta, instance, selfInstance, cleaned_data,
          errors, save_m2m, args, last, fac>>

metaVars == <<meta, opts, cls>>
formVars == <<docMeta, instance, selfInstance, cleaned_data, errors, save_m2m,
              args, last>>

----------------------------------------------------------------------------
(* Bounds *)

\* longest instance._meta.fields list, and number of distinct field names
MaxFields == 2

\* most extra positional arguments handed to documentform_factory
MaxExtraArgs == 1

----------------------------------------------------------------------------
(* Values *)

None == "None"
Absent == "<absent>"          \* getattr finds no such attribute
EmptyStr == ""                \* a falsy value that is not None
ALL_FIELDS == "__all__"       \* django.forms.models.ALL_FIELDS

\* Python values of the options fields / exclude / localized_fields and of the
\* fields / exclude arguments: absent, None, a string, or a sequence of names
\* (kept as the set of its items: only membership is ever asked of it).
PyAbsent == [kind |-> "absent", str |-> "", items |-> {}]
PyNone == [kind |-> "none", str |-> "", items |-> {}]
PyStr(s) == [kind |-> "str", str |-> s, items |-> {}]
PyList(S) == [kind |-> "list", str |-> "", items |-> S]

FieldNames == 1..MaxFields

\* The field descriptors instance._meta.fields may hold.  editable is "True",
\* "False", or "AttributeError" when looking the attribute up raises.
FieldKinds ==
    { [editable |-> "True",  type |-> "StringField"],
      [editable |-> "True",  type |-> "FileField"],
      [editable |-> "True",  type |-> "ObjectIdField"],
      [editable |-> "False", type |-> "StringField"],
      [editable |-> "AttributeError", type |-> "StringField"] }

MkField(n, k) == [name |-> n, editable |-> k.editable, type |-> k.type]

\* Field lists: the i-th field is named i.
FieldLists ==
    UNION { { [i \in 1..n |-> MkField(i, ks[i])] : ks \in [1..n -> FieldKinds] }
            : n \in 0..MaxFields }

\* The value the form cleaned for field n, and the value the instance holds before.
CleanedValue(n) == n + 100
OldValue(n) == n

CleanedDatas ==
    { [n \in K |-> CleanedValue(n)] : K \in SUBSET FieldNames }

NameSelections == {PyNone} \cup { PyList(S) : S \in SUBSET FieldNames }

\* the fields whose save_form_data raises ValidationError for the cleaned value;
\* the first one reached ends the call, so at most one is drawn
Failures == {{}} \cup { {n} : n \in FieldNames }

DocClasses == {"DocA", "DocB"}

----------------------------------------------------------------------------
(* construct_instance *)

IsObjectIdField(f) == f.type = "ObjectIdField"
IsFileField(f) == f.type = "FileField"

\* f.save_form_data(instance, data): sets the attribute named f.name, or raises
\* ValidationError (for a field in `failing`) before anything is assigned; the
\* call is logged either way.
SaveFormData(st, f, data, failing) ==
    IF f.name \in failing
    THEN [st EXCEPT !.raised = "ValidationError",
                    !.calls = Append(@, <<f.name, data>>)]
    ELSE [st EXCEPT !.inst.values[f.name] = data,
                    !.calls = Append(@, <<f.name, data>>)]

\* SkipsField without the test of exclude
SkipsFieldIgnoringExclude(f, cd, fields, exclude) ==
    \/ f.editable = "AttributeError"
    \/ f.editable = "False"
    \/ IsObjectIdField(f)
    \/ f.name \notin DOMAIN cd
    \/ (fields.kind # "none" /\ f.name \notin fields.items)

\* lines 23-36: the conditions under which the loop body continues
SkipsField(f, cd, fields, exclude) ==
    \/ f.editable = "AttributeError"
    \/ f.editable = "False"
    \/ IsObjectIdField(f)
    \/ f.name \notin DOMAIN cd
    \/ (fields.kind # "none" /\ f.name \notin fields.items)
    \/ (exclude.kind # "none" /\ exclude.items # {} /\ f.name \in exclude.items)

\* MainLoopBody saving file fields where they stand
MainLoopBodyNoDefer(st, f, cd, fields, exclude, failing) ==
    IF st.raised # "none" THEN st
    ELSE IF SkipsField(f, cd, fields, exclude) THEN st
    ELSE SaveFormData(st, f, cd[f.name], failing)

\* one iteration of `for f in opts.fields`
MainLoopBody(st, f, cd, fields, exclude, failing) ==
    IF st.raised # "none" THEN st
    ELSE IF SkipsField(f, cd, fields, exclude) THEN st
    ELSE IF IsFileField(f)
         THEN [st EXCEPT !.file_field_list = Append(@, f)]
         ELSE SaveFormData(st, f, cd[f.name], failing)

RECURSIVE MainLoop(_, _, _, _, _, _, _)
MainLoop(st, fs, i, cd, fields, exclude, failing) ==
    IF i > Len(fs) THEN st
    ELSE MainLoop(MainLoopBody(st, fs[i], cd, fields, exclude, failing),
                  fs, i + 1, cd, fields, exclude, failing)

\* `for f in file_field_list`
RECURSIVE FileLoop(_, _, _, _)
FileLoop(st, i, cd, failing) ==
    IF i > Len(st.file_field_list) \/ st.raised # "none" THEN st
    ELSE FileLoop(SaveFormData(st, st.file_field_list[i],
                               cd[st.file_field_list[i].name], failing),
                  i + 1, cd, failing)

\* construct_instance(form, instance, fields, exclude), reading instance._meta
\* from dm.  The result: the instance afterwards, the save_form_data calls in
\* order, what was raised, and the returned oid (None when raising).
ConstructInstance(cd, inst, dm, fields, exclude, failing) ==
    LET st0 == [inst |-> inst, calls |-> <<>>, file_field_list |-> <<>>,
                raised |-> "none"]
        fs  == dm[inst.cls].fields
        st1 == IF ~fs.present
               THEN [st0 EXCEPT !.raised = "AttributeError"]
               ELSE FileLoop(MainLoop(st0, fs.list, 1, cd, fields, exclude, failing),
                             1, cd, failing)
    IN  [inst |-> st1.inst, calls |-> st1.calls, raised |-> st1.raised,
         ret |-> IF st1.raised = "none" THEN st1.inst.oid ELSE None]

----------------------------------------------------------------------------
(* DocumentFormOptions *)

NoMeta ==
    [given |-> FALSE, document |-> Absent, model |-> Absent,
     fields |-> PyAbsent, exclude |-> PyAbsent, localized_fields |-> PyAbsent,
     embedded_field |-> Absent]

NoOpts ==
    [built |-> FALSE, model |-> None, fields |-> PyNone, exclude |-> PyNone,
     localized_fields |-> PyNone, embedded_field |-> None]

\* getattr(options, name, None)
Getattr(v) == IF v = Absent THEN None ELSE v
GetattrOpt(v) == IF v.kind = "absent" THEN PyNone ELSE v

Truthy(v) == v \notin {None, EmptyStr}
\* PyOr preferring its second operand
PyOrSecondFirst(a, b) == IF Truthy(b) THEN b ELSE a
PyOr(a, b) == IF Truthy(a) THEN a ELSE b

\* DocumentFormOptions that also drops Meta.document when writing Meta.model
DocumentFormOptionsDropsDocument(options) ==
    LET model == PyOr(Getattr(options.document), Getattr(options.model))
    IN  [opts |-> [built |-> TRUE,
                   model |-> model,
                   fields |-> GetattrOpt(options.fields),
                   exclude |-> GetattrOpt(options.exclude),
                   localized_fields |-> GetattrOpt(options.localized_fields),
                   embedded_field |-> Getattr(options.embedded_field)],
         options |-> IF model # None
                     THEN [options EXCEPT !.model = model, !.document = Absent]
                     ELSE options]

\* DocumentFormOptions(options): the options object built, and what has become
\* of `options` (the user's Meta) by the time __init__ returns.
DocumentFormOptions(options) ==
    LET model == PyOr(Getattr(options.document), Getattr(options.model))
    IN  [opts |-> [built |-> TRUE,
                   model |-> model,
                   fields |-> GetattrOpt(options.fields),
                   exclude |-> GetattrOpt(options.exclude),
                   localized_fields |-> GetattrOpt(options.localized_fields),
                   embedded_field |-> Getattr(options.embedded_field)],
         options |-> IF model # None
                     THEN [options EXCEPT !.model = model]
                     ELSE options]

----------------------------------------------------------------------------
(* DocumentFormMetaclass.__new__ *)

\* form field objects: one derived from the model, one declared on the class,
\* or the None fields_for_model leaves for a name it cannot resolve
ModelField == "model field"
DeclaredField == "declared field"

DeclaredFields(names) == [n \in names |-> DeclaredField]

\* what fields_for_model may hand back: name -> form field or None
HostFieldMaps ==
    UNION { [S -> {ModelField, None}] : S \in SUBSET FieldNames }

NotCalled ==
    [called |-> FALSE, model |-> None, fields |-> PyNone, exclude |-> PyNone,
     localized_fields |-> PyNone, field_classes |-> FALSE]

IsStringMistake(value) == value.kind = "str" /\ value.str # ALL_FIELDS

\* FirstStringOption overlooking localized_fields
FirstStringOptionNoLocalized(o) ==
    IF IsStringMistake(o.fields) THEN "fields"
    ELSE IF IsStringMistake(o.exclude) THEN "exclude"
    ELSE ""

\* lines 75-83: the first option that is a string, "" when there is none
FirstStringOption(o) ==
    IF IsStringMistake(o.fields) THEN "fields"
    ELSE IF IsStringMistake(o.exclude) THEN "exclude"
    ELSE IF IsStringMistake(o.localized_fields) THEN "localized_fields"
    ELSE ""

\* MissingFields not sparing the declared fields
MissingFieldsIgnoringDeclared(hostFields, declared) ==
    { k \in DOMAIN hostFields : ~Truthy(hostFields[k]) }

\* line 126-129
MissingFields(hostFields, declared) ==
    { k \in DOMAIN hostFields : ~Truthy(hostFields[k]) } \ declared

\* line 136: fields.update(new_class.declared_fields)
Update(hostFields, declared) ==
    [n \in DOMAIN hostFields \cup declared |->
        IF n \in declared THEN DeclaredField ELSE hostFields[n]]

\* NormaliseFields leaving the sentinel in place
NormaliseFieldsKeepsSentinel(o) == o

\* lines 94-97
NormaliseFields(o) ==
    IF o.fields.kind = "str" /\ o.fields.str = ALL_FIELDS
    THEN [o EXCEPT !.fields = PyNone]
    ELSE o

\* lines 99-123
FieldsForModelCall(o, hasFieldClasses) ==
    [called |-> TRUE, model |-> o.model, fields |-> o.fields,
     exclude |-> o.exclude, localized_fields |-> o.localized_fields,
     field_classes |-> hasFieldClasses]

Raised(e, opt) ==
    [phase |-> "raised", raised |-> e, option |-> opt,
     base_fields |-> <<>>, ffm |-> NotCalled, ffmResult |-> <<>>]

\* DocumentFormMetaclass.__new__ for a class with the given Meta.  isBase:
\* bases == (BaseDocumentForm,); declared: the names of the declared fields;
\* hostFields: what fields_for_model returns if it is called; hasFieldClasses:
\* hasattr(opts, "field_classes").  Result: the class (or what was raised), the
\* options object built and the Meta afterwards.
MetaclassNew(m, o, isBase, declared, hostFields, hasFieldClasses) ==
    LET built == DocumentFormOptions(m)
        bo    == built.opts
        strOpt == FirstStringOption(bo)
        no    == NormaliseFields(bo)
        missing == MissingFields(hostFields, declared)
    IN  IF isBase
        THEN [cls |-> [phase |-> "created", raised |-> "none", option |-> "",
                       base_fields |-> DeclaredFields(declared),
                       ffm |-> NotCalled, ffmResult |-> <<>>],
              opts |-> o, meta |-> m]
        ELSE IF strOpt # ""
        THEN [cls |-> Raised("TypeError", strOpt), opts |-> bo,
              meta |-> built.options]
        ELSE IF ~Truthy(bo.model)
        THEN [cls |-> [phase |-> "created", raised |-> "none", option |-> "",
                       base_fields |-> DeclaredFields(declared),
                       ffm |-> NotCalled, ffmResult |-> <<>>],
              opts |-> bo, meta |-> built.options]
        ELSE IF bo.fields.kind = "none" /\ bo.exclude.kind = "none"
        THEN [cls |-> Raised("ImproperlyConfigured", ""), opts |-> bo,
              meta |-> built.options]
        ELSE IF missing # {}
        THEN [cls |-> [Raised("FieldError", "") EXCEPT
                          !.ffm = FieldsForModelCall(no, hasFieldClasses),
                          !.ffmResult = hostFields],
              opts |-> no, meta |-> built.options]
        ELSE [cls |-> [phase |-> "created", raised |-> "none", option |-> "",
                       base_fields |-> Update(hostFields, declared),
                       ffm |-> FieldsForModelCall(no, hasFieldClasses),
                       ffmResult |-> hostFields],
              opts |-> no, meta |-> built.options]

----------------------------------------------------------------------------
(* State *)

NoClass ==
    [phase |-> "declared", raised |-> "none", option |-> "",
     base_fields |-> <<>>, ffm |-> NotCalled, ffmResult |-> <<>>]

\* calls: the save_form_data calls, saves: the instance.save() calls and
\* update_errors: the _update_errors calls the operation made, in order
NoCall == [op |-> "none", commit |-> FALSE, calls |-> <<>>, saves |-> <<>>,
           update_errors |-> <<>>, raised |-> "none", ret |-> None]

\* fields, exclude: arguments of construct_instance; failing: see SaveFormData;
\* options, isBase, declared: what DocumentFormOptions / __new__ was called with
NoArgs == [fields |-> PyNone, exclude |-> PyNone, failing |-> {},
           options |-> NoMeta, isBase |-> FALSE, declared |-> {}]

NoFactory ==
    [phase |-> "idle", model |-> <<>>, given |-> <<>>, extra |-> <<>>,
     kwargs |-> {}, host |-> <<>>, hostCalls |-> <<>>, outcome |-> "",
     result |-> ""]

MetaObject(fs) == [fields |-> fs, collection |-> "docs"]
NoFieldsAttr == [present |-> FALSE, list |-> <<>>]
FieldsAttr(l) == [present |-> TRUE, list |-> l]

NewInstance(c) ==
    [oid |-> "doc1", cls |-> c, values |-> [n \in FieldNames |-> OldValue(n)]]

\* no form has been instantiated: the class definition is what is studied
NoForm ==
    /\ docMeta = [c \in DocClasses |-> MetaObject(NoFieldsAttr)]
    /\ instance = NewInstance("DocA")
    /\ selfInstance = None
    /\ cleaned_data = <<>>
    /\ errors = {}
    /\ save_m2m = Absent
    /\ args = NoArgs
    /\ last = NoCall

\* a form class defined with Meta.model = DocA and the given Meta.fields
DefinedClass(fs) ==
    /\ meta = [NoMeta EXCEPT !.given = TRUE, !.model = "DocA", !.fields = fs,
                             !.exclude = IF fs.kind = "none"
                                         THEN PyList({}) ELSE PyAbsent]
    /\ opts = [NoOpts EXCEPT !.built = TRUE, !.model = "DocA", !.fields = fs,
                             !.exclude = IF fs.kind = "none"
                                         THEN PyList({}) ELSE PyNone]
    /\ cls = [NoClass EXCEPT !.phase = "created"]

----------------------------------------------------------------------------
(* construct_instance called on its own *)

InitCI ==
    /\ DefinedClass(PyNone)
    /\ fac = NoFactory
    /\ \E l \in FieldLists :
          docMeta = [c \in DocClasses |->
                        MetaObject(IF c = "DocA" THEN FieldsAttr(l) ELSE NoFieldsAttr)]
    /\ \E c \in DocClasses : instance = NewInstance(c)
    /\ selfInstance = instance.oid
    /\ cleaned_data \in CleanedDatas
    /\ errors = {}
    /\ save_m2m = Absent
    /\ \E fs \in NameSelections, ex \in NameSelections, fl \in Failures :
          args = [NoArgs EXCEPT !.fields = fs, !.exclude = ex, !.failing = fl,
                                !.options = meta]
    /\ last = NoCall

\* construct_instance(form, form.instance, fields, exclude)
CallConstructInstance ==
    LET r == ConstructInstance(cleaned_data, instance, docMeta,
                               args.fields, args.exclude, args.failing)
    IN  /\ last.op = "none"
        /\ instance' = r.inst
        /\ last' = [NoCall EXCEPT !.op = "construct_instance",
                                   !.calls = r.calls, !.raised = r.raised,
                                   !.ret = r.ret]
        /\ UNCHANGED <<metaVars, docMeta, selfInstance, cleaned_data, errors,
                       save_m2m, args, fac>>

NextCI == CallConstructInstance

SpecCI == InitCI /\ [][NextCI]_vars

----------------------------------------------------------------------------
(* BaseDocumentForm *)

\* _post_clean without the except clause
PostCleanOpNoCatch(cd, inst, selfInst, dm, o, exclude, failing, errs) ==
    LET src == dm[o.model].fields
        dm1 == [dm EXCEPT ![inst.cls].fields = src]
        r   == ConstructInstance(cd, inst, dm1, o.fields, exclude, failing)
    IN  IF ~src.present
        THEN [docMeta |-> dm, instance |-> inst, selfInstance |-> selfInst,
              errors |-> errs, update_errors |-> <<>>, calls |-> <<>>,
              raised |-> "AttributeError"]
        ELSE [docMeta |-> dm1, instance |-> r.inst,
              selfInstance |-> IF r.raised = "none" THEN r.ret ELSE selfInst,
              errors |-> errs, update_errors |-> <<>>, calls |-> r.calls,
              raised |-> r.raised]

\* BaseDocumentForm._post_clean with exclude = self._get_validation_exclusions()
PostCleanOp(cd, inst, selfInst, dm, o, exclude, failing, errs) ==
    LET src == dm[o.model].fields
        dm1 == [dm EXCEPT ![inst.cls].fields = src]
        r   == ConstructInstance(cd, inst, dm1, o.fields, exclude, failing)
    IN  IF ~src.present
        THEN [docMeta |-> dm, instance |-> inst, selfInstance |-> selfInst,
              errors |-> errs, update_errors |-> <<>>, calls |-> <<>>,
              raised |-> "AttributeError"]
        ELSE IF r.raised = "ValidationError"
        THEN [docMeta |-> dm1, instance |-> r.inst, selfInstance |-> selfInst,
              errors |-> errs \cup {"ValidationError"},
              update_errors |-> <<"ValidationError">>, calls |-> r.calls,
              raised |-> "none"]
        ELSE [docMeta |-> dm1, instance |-> r.inst, selfInstance |-> r.ret,
              errors |-> errs, update_errors |-> <<>>, calls |-> r.calls,
              raised |-> r.raised]

\* save persisting whatever commit says
SaveOpAlwaysCommits(selfInst, errs, m2m, commit) ==
    IF errs # {}
    THEN [raised |-> "ValueError", saves |-> <<>>, save_m2m |-> m2m, ret |-> None]
    ELSE [raised |-> "none", saves |-> <<selfInst>>, save_m2m |-> m2m,
          ret |-> selfInst]

\* BaseDocumentForm.save(commit)
SaveOp(selfInst, errs, m2m, commit) ==
    IF errs # {}
    THEN [raised |-> "ValueError", saves |-> <<>>, save_m2m |-> m2m, ret |-> None]
    ELSE IF commit
    THEN [raised |-> "none", saves |-> <<selfInst>>, save_m2m |-> m2m,
          ret |-> selfInst]
    ELSE [raised |-> "none", saves |-> <<>>, save_m2m |-> "_save_m2m",
          ret |-> selfInst]

\* the field kinds a bound form's document is drawn from: written at once or
\* deferred (a field is skipped there by cleaned_data, Meta.fields or exclude)
FormFieldKinds ==
    { k \in FieldKinds : k.editable = "True" /\ k.type # "ObjectIdField" }

\* what self._get_validation_exclusions() returns: a list of field names
ValidationExclusions == { PyList(S) : S \in Failures }

FormFieldLists ==
    UNION { { [i \in 1..n |-> MkField(i, ks[i])] : ks \in [1..n -> FormFieldKinds] }
            : n \in 0..MaxFields }

\* a bound form of a class with Meta.model = DocA whose fields have been cleaned
InitForm ==
    /\ \E fs \in NameSelections : DefinedClass(fs)
    /\ fac = NoFactory
    /\ \E l \in FormFieldLists :
          docMeta = [c \in DocClasses |->
                        MetaObject(IF c = "DocA" THEN FieldsAttr(l) ELSE NoFieldsAttr)]
    /\ \E c \in DocClasses : instance = NewInstance(c)
    /\ selfInstance = instance.oid
    /\ cleaned_data \in CleanedDatas
    /\ errors = {}
    /\ save_m2m = Absent
    /\ \E ex \in ValidationExclusions, fl \in Failures :
          args = [NoArgs EXCEPT !.exclude = ex, !.failing = fl,
                                !.options = meta]
    /\ last = NoCall

PostClean ==
    LET r == PostCleanOp(cleaned_data, instance, selfInstance, docMeta, opts,
                         args.exclude, args.failing, errors)
    IN  /\ selfInstance # None
        /\ docMeta' = r.docMeta
        /\ instance' = r.instance
        /\ selfInstance' = r.selfInstance
        /\ errors' = r.errors
        /\ last' = [NoCall EXCEPT !.op = "_post_clean", !.calls = r.calls,
                                   !.update_errors = r.update_errors,
                                   !.raised = r.raised]
        /\ UNCHANGED <<metaVars, cleaned_data, save_m2m, args, fac>>

Save(commit) ==
    LET r == SaveOp(selfInstance, errors, save_m2m, commit)
    IN  /\ selfInstance # None
        /\ save_m2m' = r.save_m2m
        /\ last' = [NoCall EXCEPT !.op = "save", !.commit = commit,
                                   !.saves = r.saves, !.raised = r.raised,
                                   !.ret = r.ret]
        /\ UNCHANGED <<metaVars, docMeta, instance, selfInstance, cleaned_data,
                       errors, args, fac>>

\* construct_instance(form, form.instance) with the default fields and exclude
DirectConstructInstance ==
    LET r == ConstructInstance(cleaned_data, instance, docMeta,
                               args.fields, PyNone, args.failing)
    IN  /\ selfInstance # None
        /\ instance' = r.inst
        /\ last' = [NoCall EXCEPT !.op = "construct_instance",
                                   !.calls = r.calls, !.raised = r.raised,
                                   !.ret = r.ret]
        /\ UNCHANGED <<metaVars, docMeta, selfInstance, cleaned_data, errors,
                       save_m2m, args, fac>>

NextForm ==
    \/ PostClean
    \/ \E commit \in BOOLEAN : Save(commit)
    \/ DirectConstructInstance

SpecForm == InitForm /\ [][NextForm]_vars

----------------------------------------------------------------------------
(* Defining a form class *)

ClassValues == {Absent, None, EmptyStr, "DocA", "DocB"}
OptionValues ==
    {PyAbsent, PyNone, PyStr(ALL_FIELDS), PyStr("title"), PyList({1})}

Metas ==
    {NoMeta} \cup
    [given : {TRUE}, document : ClassValues \ {"DocB"}, model : ClassValues,
     fields : OptionValues, exclude : OptionValues,
     localized_fields : OptionValues \ {PyList({1})},
     embedded_field : {Absent, "address"}]

\* a class statement about to run: its Meta is written, nothing is built yet
InitMeta ==
    /\ meta \in Metas
    /\ opts = NoOpts
    /\ cls = NoClass
    /\ fac = NoFactory
    /\ NoForm

\* DocumentFormOptions(Meta) on its own
BuildOptions ==
    LET r == DocumentFormOptions(meta)
    IN  /\ opts' = r.opts
        /\ meta' = r.options
        /\ args' = [args EXCEPT !.options = meta]
        /\ UNCHANGED <<cls, docMeta, instance, selfInstance, cleaned_data,
                       errors, save_m2m, last, fac>>

\* fields_for_model answers, and opts has or lacks field_classes, only in a
\* definition that gets as far as calling fields_for_model
CallsHost(m, o, isBase, declared) ==
    MetaclassNew(m, o, isBase, declared, <<>>, FALSE).cls.ffm.called
HostAnswers(m, o, isBase, declared) ==
    IF CallsHost(m, o, isBase, declared) THEN HostFieldMaps ELSE {<<>>}
HostVersions(m, o, isBase, declared) ==
    IF CallsHost(m, o, isBase, declared) THEN BOOLEAN ELSE {FALSE}

\* the class statement: DocumentFormMetaclass.__new__(mcs, name, bases, attrs)
DefineForm ==
    /\ cls.phase = "declared"
    /\ \E isBase \in BOOLEAN, declared \in SUBSET FieldNames :
       \E hostFields \in HostAnswers(meta, opts, isBase, declared),
          hasFieldClasses \in HostVersions(meta, opts, isBase, declared) :
          LET r == MetaclassNew(meta, opts, isBase, declared, hostFields,
                                hasFieldClasses)
          IN  /\ cls' = r.cls
              /\ opts' = r.opts
              /\ meta' = r.meta
              /\ args' = [args EXCEPT !.options = meta, !.isBase = isBase,
                                      !.declared = declared]
    /\ UNCHANGED <<docMeta, instance, selfInstance, cleaned_data, errors,
                   save_m2m, last, fac>>

NextMeta == BuildOptions \/ DefineForm

SpecMeta == InitMeta /\ [][NextMeta]_vars

----------------------------------------------------------------------------
(* documentform_factory *)

\* the keyword parameters after model, in the order of the signature
FactoryParams ==
    <<"form", "fields", "exclude", "formfield_callback", "widgets",
      "localized_fields", "labels", "help_texts", "error_messages">>

\* the value a caller hands over for parameter p, and the declared default
GivenValue(p) == <<"given", p>>
Omitted == <<"omitted", "">>
Default(p) == IF p = "form" THEN <<"default", "DocumentForm">>
              ELSE <<"default", None>>

ExtraArgs ==
    UNION { [1..n -> {<<"extra", "a">>}] : n \in 0..MaxExtraArgs }
KwArgs == SUBSET {<<"field_classes", "kw">>}

\* the parameter's value inside the function body
Bound(given, i) ==
    IF given[i] = Omitted THEN Default(FactoryParams[i]) ELSE given[i]

\* HostCall handing fields and exclude over in each other's place
HostCallSwapped(model, given, extra, kwargs) ==
    [positional |-> <<model, Bound(given, 1), Bound(given, 3), Bound(given, 2)>>
                    \o [i \in 1..(Len(FactoryParams) - 3) |-> Bound(given, i + 3)]
                    \o extra,
     kwargs |-> kwargs]

\* model_forms.modelform_factory(model, form, ..., error_messages, *args, **kwargs)
HostCall(model, given, extra, kwargs) ==
    [positional |-> <<model>> \o [i \in 1..Len(FactoryParams) |-> Bound(given, i)]
                    \o extra,
     kwargs |-> kwargs]

\* documentform_factory: the calls made to the host factory, and the outcome
DocumentformFactory(model, given, extra, kwargs, host) ==
    [hostCalls |-> <<HostCall(model, given, extra, kwargs)>>,
     outcome |-> host.outcome, result |-> host.result]

\* what the host factory does with the call: returns a class or raises
HostBehaviours ==
    { [outcome |-> "returned", result |-> "FormClass"],
      [outcome |-> "raised", result |-> "ImproperlyConfigured"] }

\* a call about to be made; extra positional arguments can only follow ten
\* positional ones
InitFactory ==
    /\ DefinedClass(PyNone)
    /\ NoForm
    /\ \E model \in {<<"given", "DocA">>, <<"given", "DocB">>},
          given \in [1..Len(FactoryParams) -> BOOLEAN],
          extra \in ExtraArgs, kwargs \in KwArgs, host \in HostBehaviours :
          /\ extra # <<>> => \A i \in DOMAIN given : given[i]
          /\ fac = [phase |-> "called", model |-> model,
                    given |-> [i \in 1..Len(FactoryParams) |->
                                 IF given[i] THEN GivenValue(FactoryParams[i])
                                 ELSE Omitted],
                    extra |-> extra, kwargs |-> kwargs, host |-> host,
                    hostCalls |-> <<>>, outcome |-> "", result |-> ""]

CallFactory ==
    LET r == DocumentformFactory(fac.model, fac.given, fac.extra, fac.kwargs,
                                 fac.host)
    IN  /\ fac.phase = "called"
        /\ fac' = [fac EXCEPT !.phase = "done", !.hostCalls = r.hostCalls,
                              !.outcome = r.outcome, !.result = r.result]
        /\ UNCHANGED <<metaVars, formVars>>

NextFactory == CallFactory

SpecFactory == InitFactory /\ [][NextFactory]_vars

----------------------------------------------------------------------------
(* The module as a whole: a class being defined, or a bound form in use *)

Init == InitMeta \/ InitForm

Next == BuildOptions \/ DefineForm \/ PostClean
        \/ (\E commit \in BOOLEAN : Save(commit)) \/ DirectConstructInstance

Spec == Init /\ [][Next]_vars

----------------------------------------------------------------------------
(* Properties of construct_instance, under SpecCI *)

\* the field list the call iterated over, <<>> when instance._meta has none
IteratedFields ==
    IF docMeta[instance.cls].fields.present
    THEN docMeta[instance.cls].fields.list ELSE <<>>

\* the conditions of C1, for the arguments of the call
Qualifies(f) ==
    /\ f.editable = "True"
    /\ f.type # "ObjectIdField"
    /\ f.name \in DOMAIN cleaned_data
    /\ (args.fields.kind = "none" \/ f.name \in args.fields.items)
    /\ (args.exclude.kind = "none" \/ args.exclude.items = {}
        \/ f.name \notin args.exclude.items)

CallsOn(n) == { i \in DOMAIN last.calls : last.calls[i][1] = n }

ListedNames == { IteratedFields[i].name : i \in DOMAIN IteratedFields }

\* C1 as stated: a call of construct_instance has called save_form_data exactly
\* once for every field of instance._meta.fields that is editable, no
\* ObjectIdField, a key of cleaned_data, in fields (when given) and not in
\* exclude (when non-empty), and not at all for any other field.
C1_AsStated ==
    last.op = "construct_instance" =>
        \A i \in DOMAIN IteratedFields :
            Cardinality(CallsOn(IteratedFields[i].name)) =
                (IF Qualifies(IteratedFields[i]) THEN 1 ELSE 0)

\* C1, amended: a call of construct_instance that returns has called
\* save_form_data exactly once, with cleaned_data[f.name], for every field that
\* qualifies as above; when a save_form_data call raises, the exception leaves
\* construct_instance and the qualifying fields not yet reached get no call.
\* Returning or raising, it calls save_form_data at most once per qualifying
\* field and never on any other field (non-editable, ObjectIdField,
\* AttributeError on lookup, not cleaned, filtered out), whose value on the
\* instance stays what it was.
C1_ConstructInstanceCalls ==
    last.op = "construct_instance" =>
        /\ \A i \in DOMAIN IteratedFields :
              LET f == IteratedFields[i]
              IN  IF Qualifies(f)
                  THEN /\ Cardinality(CallsOn(f.name)) <= 1
                       /\ last.raised = "none" =>
                             /\ Cardinality(CallsOn(f.name)) = 1
                             /\ \A c \in CallsOn(f.name) :
                                   last.calls[c][2] = cleaned_data[f.name]
                  ELSE /\ CallsOn(f.name) = {}
                       /\ instance.values[f.name] = OldValue(f.name)
        /\ \A c \in DOMAIN last.calls : last.calls[c][1] \in ListedNames
        /\ \A n \in FieldNames \ ListedNames :
              instance.values[n] = OldValue(n)

\* a returned call that saved one field and passed over another that was
\* cleaned but excluded
C1_Witness ==
    /\ last.op = "construct_instance"
    /\ last.raised = "none"
    /\ last.calls # <<>>
    /\ \E i \in DOMAIN IteratedFields :
          LET f == IteratedFields[i]
          IN  /\ f.editable = "True"
              /\ f.type = "StringField"
              /\ f.name \in DOMAIN cleaned_data
              /\ args.fields.kind = "none"
              /\ f.name \in args.exclude.items
              /\ CallsOn(f.name) = {}

PositionOf(n) == CHOOSE i \in DOMAIN IteratedFields : IteratedFields[i].name = n

IsFileCall(c) == IteratedFields[PositionOf(last.calls[c][1])].type = "FileField"

\* C2: in the save_form_data calls of one construct_instance invocation every
\* call on a FileField comes after every call on a field that is no FileField,
\* and within the file fields and within the others the calls follow the order
\* of instance._meta.fields.
C2_FileFieldsDeferred ==
    last.op = "construct_instance" =>
        \A c \in DOMAIN last.calls : \A d \in DOMAIN last.calls :
            c < d =>
                /\ IsFileCall(c) => IsFileCall(d)
                /\ IsFileCall(c) = IsFileCall(d) =>
                      PositionOf(last.calls[c][1]) < PositionOf(last.calls[d][1])

\* a file field listed before another field is saved after it
C2_Witness ==
    /\ last.op = "construct_instance"
    /\ \E c \in DOMAIN last.calls : \E d \in DOMAIN last.calls :
          /\ c < d
          /\ IsFileCall(c) = FALSE
          /\ IsFileCall(d)
          /\ PositionOf(last.calls[d][1]) < PositionOf(last.calls[c][1])

----------------------------------------------------------------------------
(* Properties of the class definition, under SpecMeta.  args.options is the    *)
(* Meta as the class body declared it, args.isBase and args.declared the rest  *)
(* of what __new__ was given.                                                  *)

Defined == cls.phase # "declared"

\* an option declared as a string that is not the ALL_FIELDS sentinel
DeclaredAsString(v) == v.kind = "str" /\ v.str # "__all__"

SomeOptionIsString ==
    \/ DeclaredAsString(args.options.fields)
    \/ DeclaredAsString(args.options.exclude)
    \/ DeclaredAsString(args.options.localized_fields)

DeclaredNone(v) == v.kind \in {"absent", "none"}

\* a model or document is configured: the class the options resolve to is truthy
ModelConfigured ==
    \/ args.options.document \notin {"<absent>", "None", ""}
    \/ args.options.model \notin {"<absent>", "None", ""}

\* C3: a class definition other than the direct base case raises TypeError
\* whenever Meta.fields, Meta.exclude or Meta.localized_fields is a string other
\* than ALL_FIELDS, with or without a model, and does so before the
\* ImproperlyConfigured check and before fields_for_model is ever called (so
\* before the FieldError check); with no such string it raises no TypeError.
C3_StringOptionTypeError ==
    (Defined /\ ~args.isBase) =>
        /\ SomeOptionIsString <=> cls.raised = "TypeError"
        /\ cls.raised = "TypeError" => ~cls.ffm.called

\* TypeError raised for localized_fields on a class with a model and neither
\* fields nor exclude, which would otherwise be ImproperlyConfigured
C3_Witness ==
    /\ Defined
    /\ ~args.isBase
    /\ cls.raised = "TypeError"
    /\ cls.option = "localized_fields"
    /\ ModelConfigured
    /\ DeclaredNone(args.options.fields)
    /\ DeclaredNone(args.options.exclude)

\* C4 as stated: with a model or document configured the definition raises
\* ImproperlyConfigured exactly when Meta.fields and Meta.exclude are both None
\* (taken here for the definitions that are not the direct base case only).
C4_AsStated ==
    (Defined /\ ~args.isBase /\ ModelConfigured) =>
        (cls.raised = "ImproperlyConfigured"
            <=> (DeclaredNone(args.options.fields)
                 /\ DeclaredNone(args.options.exclude)))

\* C4, amended: the definition raises ImproperlyConfigured exactly when it is
\* not the direct base case, no option is a string other than ALL_FIELDS (that
\* raises TypeError first), a model or document is configured and Meta.fields
\* and Meta.exclude are both None as declared.  Declaring fields as ALL_FIELDS
\* with no exclude on such a class does not raise it, and fields_for_model is
\* then called with opts.fields, which has been set to None.  With no
\* model or document configured it is never raised.
C4_ImproperlyConfigured ==
    Defined =>
        /\ cls.raised = "ImproperlyConfigured"
              <=> /\ ~args.isBase
                  /\ ~SomeOptionIsString
                  /\ ModelConfigured
                  /\ DeclaredNone(args.options.fields)
                  /\ DeclaredNone(args.options.exclude)
        /\ ( /\ ~args.isBase
             /\ ~SomeOptionIsString
             /\ ModelConfigured
             /\ args.options.fields = PyStr("__all__")
             /\ DeclaredNone(args.options.exclude) )
           => /\ cls.raised # "ImproperlyConfigured"
              /\ cls.ffm.called
              /\ cls.ffm.fields = PyNone

\* a class with a model, fields = ALL_FIELDS and no exclude is created, and
\* fields_for_model was handed fields = None
C4_Witness ==
    /\ cls.phase = "created"
    /\ ~args.isBase
    /\ ModelConfigured
    /\ args.options.fields = PyStr("__all__")
    /\ DeclaredNone(args.options.exclude)
    /\ cls.ffm.called
    /\ opts.fields = PyNone

\* names fields_for_model answered None for that the class does not declare
UnknownNames ==
    { k \in DOMAIN cls.ffmResult : cls.ffmResult[k] = "None" } \ args.declared

\* C8: once fields_for_model has answered (a model or document is configured),
\* FieldError is raised exactly when its mapping holds a name with value None
\* that is not a declared field; otherwise base_fields holds every name of the
\* mapping and every declared name, the declared field where a name is
\* declared and the model's field elsewhere.  With no model or document
\* configured no FieldError is raised, fields_for_model is not called, and a
\* class that is created has base_fields equal to its declared fields.
C8_FieldErrorAndBaseFields ==
    Defined =>
        /\ cls.ffm.called =>
              /\ ModelConfigured
              /\ cls.raised = "FieldError" <=> UnknownNames # {}
              /\ cls.raised # "FieldError" =>
                    /\ cls.phase = "created"
                    /\ DOMAIN cls.base_fields = DOMAIN cls.ffmResult \cup args.declared
                    /\ \A n \in args.declared :
                          cls.base_fields[n] = "declared field"
                    /\ \A n \in DOMAIN cls.ffmResult \ args.declared :
                          cls.base_fields[n] = cls.ffmResult[n]
        /\ cls.raised = "FieldError" => cls.ffm.called
        /\ ~ModelConfigured =>
              /\ ~cls.ffm.called
              /\ cls.phase = "created" =>
                    cls.base_fields = [n \in args.declared |-> "declared field"]

\* a created class in which a declared field stands in for a name the model
\* could not resolve, next to a field taken from the model
C8_Witness ==
    /\ cls.phase = "created"
    /\ cls.ffm.called
    /\ \E n \in DOMAIN cls.ffmResult :
          /\ cls.ffmResult[n] = "None"
          /\ cls.base_fields[n] = "declared field"
    /\ \E n \in DOMAIN cls.ffmResult : cls.base_fields[n] = "model field"

\* the class the claim resolves from the Meta that was passed in
ResolvedFrom(m) ==
    IF m.document \notin {"<absent>", "None", ""} THEN m.document
    ELSE IF m.model # "<absent>" THEN m.model
    ELSE "None"

\* C10: DocumentFormOptions takes the class from Meta.document when that is
\* present and truthy, else from Meta.model, else None (also with no Meta);
\* a resolved class that is not None has been written to Meta.model, so that
\* opts.model and Meta.model agree; embedded_field is Meta.embedded_field, None
\* when absent.
C10_OptionsResolveModel ==
    opts.built =>
        /\ opts.model = ResolvedFrom(args.options)
        /\ opts.model # "None" => meta.model = opts.model
        /\ opts.embedded_field =
              (IF args.options.embedded_field = "<absent>" THEN "None"
               ELSE args.options.embedded_field)

\* document and model both set, to different classes: the document wins and
\* Meta.model now names it
C10_Witness ==
    /\ opts.built
    /\ args.options.document = "DocA"
    /\ args.options.model = "DocB"
    /\ opts.model = "DocA"
    /\ meta.model = "DocA"

----------------------------------------------------------------------------
(* Properties of a bound form, under SpecForm *)

\* C5: whatever sequence of _post_clean, construct_instance and save calls a
\* form sees, instance.save() is called only by save(commit=True) on a form
\* without errors, once per such call; save on a form with errors raises
\* ValueError, persists nothing and returns nothing; save(commit=False)
\* persists nothing, leaves save_m2m set to _save_m2m and returns
\* self.instance; construct_instance persists nothing and returns the very
\* instance it was given.
C5_PersistOnlyOnCommit ==
    /\ last.op \in {"_post_clean", "construct_instance"} => last.saves = <<>>
    /\ (last.op = "construct_instance" /\ last.raised = "none") =>
          /\ last.ret = instance.oid
          /\ last.ret = selfInstance
    /\ last.op = "save" =>
          /\ errors # {} =>
                /\ last.raised = "ValueError"
                /\ last.saves = <<>>
                /\ last.ret = "None"
          /\ (errors = {} /\ last.commit) =>
                /\ last.raised = "none"
                /\ last.saves = <<selfInstance>>
                /\ last.ret = selfInstance
          /\ (errors = {} /\ ~last.commit) =>
                /\ last.raised = "none"
                /\ last.saves = <<>>
                /\ save_m2m = "_save_m2m"
                /\ last.ret = selfInstance

\* save(commit=True) persisting once, on a form that save(commit=False) and
\* _post_clean have been called on before
C5_Witness ==
    /\ last.op = "save"
    /\ last.commit
    /\ Len(last.saves) = 1
    /\ save_m2m = "_save_m2m"
    /\ \E n \in FieldNames : instance.values[n] # OldValue(n)

\* the names _post_clean's construct_instance saves, in the order C2 gives:
\* the qualifying fields that are no file fields, then the file fields
SelectNames(l, type, isType) ==
    LET chosen == { i \in DOMAIN l :
                      /\ l[i].editable = "True"
                      /\ l[i].type # "ObjectIdField"
                      /\ (l[i].type = type) = isType
                      /\ l[i].name \in DOMAIN cleaned_data
                      /\ (opts.fields.kind = "none" \/ l[i].name \in opts.fields.items)
                      /\ l[i].name \notin args.exclude.items }
        RECURSIVE Asc(_)
        Asc(S) == IF S = {} THEN <<>>
                  ELSE LET m == CHOOSE x \in S : \A y \in S : x <= y
                       IN  <<l[m].name>> \o Asc(S \ {m})
    IN  Asc(chosen)

PostCleanOrder ==
    LET l == docMeta[opts.model].fields.list
    IN  SelectNames(l, "FileField", FALSE) \o SelectNames(l, "FileField", TRUE)

\* positions of PostCleanOrder whose save_form_data raises
FailingAt == { i \in DOMAIN PostCleanOrder : PostCleanOrder[i] \in args.failing }

FirstFailing == CHOOSE i \in FailingAt : \A j \in FailingAt : i <= j

WrittenBefore(i) == { PostCleanOrder[j] : j \in 1..(i - 1) }

----------------------------------------------------------------------------
(* Properties of documentform_factory, under SpecFactory *)

\* what the caller handed over for the i-th parameter after model, or the
\* default of the signature
Handed(i) ==
    IF fac.given[i][1] = "omitted"
    THEN (IF i = 1 THEN <<"default", "DocumentForm">> ELSE <<"default", "None">>)
    ELSE fac.given[i]

\* C6: documentform_factory calls the host modelform_factory exactly once, with
\* model, form, fields, exclude, formfield_callback, widgets, localized_fields,
\* labels, help_texts, error_messages in this order, then the extra positional
\* and keyword arguments, every value as received (form defaulting to
\* DocumentForm, the others to None), and hands the host's result or exception
\* back unchanged.
C6_FactoryForwards ==
    fac.phase = "done" =>
        /\ Len(fac.hostCalls) = 1
        /\ LET call == fac.hostCalls[1]
           IN  /\ Len(call.positional) = 10 + Len(fac.extra)
               /\ call.positional[1] = fac.model
               /\ \A i \in 1..9 :
                     /\ call.positional[i + 1] = Handed(i)
                     /\ fac.given[i][1] = "given" =>
                           call.positional[i + 1][2] =
                              <<"form", "fields", "exclude", "formfield_callback",
                                "widgets", "localized_fields", "labels",
                                "help_texts", "error_messages">>[i]
               /\ \A j \in DOMAIN fac.extra :
                     call.positional[10 + j] = fac.extra[j]
               /\ call.kwargs = fac.kwargs
        /\ fac.outcome = fac.host.outcome
        /\ fac.result = fac.host.result

\* a call that gave fields but not exclude, with a keyword argument, whose
\* host raised
C6_Witness ==
    /\ fac.phase = "done"
    /\ fac.given[2][1] = "given"
    /\ fac.given[3][1] = "omitted"
    /\ fac.kwargs # {}
    /\ fac.outcome = "raised"
    /\ fac.hostCalls[1].positional[3] = <<"given", "fields">>

----------------------------------------------------------------------------
(* Shared objects, under Spec *)

\* C7 as stated: no operation writes to the user's Meta or to a document
\* class's _meta.
C7_AsStated == [][meta' = meta /\ docMeta' = docMeta]_vars

\* C7, amended: the operations write to shared objects in two places only.
\* Building DocumentFormOptions (on its own or in a class definition) sets
\* Meta.model to the class the options resolve to when that is not None, and
\* changes no other attribute of Meta; _post_clean sets the fields attribute of
\* the _meta of the instance's class to opts.model._meta.fields, and no other
\* attribute of any document class's _meta changes; save and construct_instance
\* write to neither.
C7_SharedWritesConfined ==
    [][ /\ [meta' EXCEPT !.model = meta.model] = meta
        /\ meta'.model # meta.model =>
              /\ opts'.built
              /\ meta'.model = opts'.model
              /\ meta'.model = ResolvedFrom(meta)
              /\ meta'.model # "None"
        /\ \A c \in DocClasses :
              /\ docMeta'[c].collection = docMeta[c].collection
              /\ docMeta'[c].fields # docMeta[c].fields =>
                    /\ last'.op = "_post_clean"
                    /\ c = instance.cls
                    /\ docMeta'[c].fields = docMeta[opts.model].fields
        /\ last'.op \in {"save", "construct_instance"} => docMeta' = docMeta
      ]_vars

\* a Meta that named its class as document now carries it as model too
C7_Witness ==
    /\ opts.built
    /\ args.options.document = "DocA"
    /\ args.options.model = "<absent>"
    /\ meta.model = "DocA"
    /\ meta.document = "DocA"

====
